---- MODULE Spec2Model ----
(***************************************************************************)
(* One run of one LLM-friendly QA wrapper (llm-eslint.js, llm-tsc.js,      *)
(* llm-jest.js, llm-vitest.js, llm-biome.js, llm-prettier.js,              *)
(* llm-phpstan.php, llm-php-cs-fixer.php, llm-phpunit.php): the script     *)
(* checks its targets, invokes the tool, adapts the tool's output, writes  *)
(* the JSON artifact, prints the terse report and exits.                   *)
(*                                                                         *)
(* A JSON object is a record whose DOMAIN holds the fields it has; a field *)
(* the document lacks is absent from the DOMAIN (JavaScript `undefined`,   *)
(* PHP unset).  A terminal write is a record that carries the number of    *)
(* terminal rows it occupies (a message with an embedded newline occupies  *)
(* more than one row).                                                     *)
(***************************************************************************)
EXTENDS Integers, Sequences, FiniteSets, TLC

\* ------------------------------------------------------------------ bounds
MaxTargets == 2   \* targets on the command line of a wrapper that resolves them
MaxItems == 4     \* size of one tool report (see Layouts)
MaxChunks == 4    \* chunks a child writes to its two pipes before it exits
PipeCapacity == 2 \* chunks a pipe buffers before write(2) blocks

\* ------------------------------------------------------------- JS values
\* The result of arithmetic on `undefined` (llm-eslint.js:55).
NaN == -1

\* err.status / proc.status of a process that never ran.
NullStatus == -1

Add(a, b) == IF a = NaN \/ b = NaN THEN NaN ELSE a + b

Has(o, k) == k \in DOMAIN o

\* o.k as a number operand: `undefined` turns the sum into NaN.
Num(o, k) == IF Has(o, k) THEN o[k] ELSE NaN

Min(a, b) == IF a < b THEN a ELSE b

\* Array.prototype.slice(0, n) / the `$shown >= 3` cut-off.
Slice(s, n) == SubSeq(s, 1, Min(n, Len(s)))

RECURSIVE SeqsUpTo(_, _)
SeqsUpTo(S, n) ==
  IF n = 0 THEN {<<>>}
  ELSE LET p == SeqsUpTo(S, n - 1)
       IN p \cup {Append(s, x) : s \in {q \in p : Len(q) = n - 1}, x \in S}

RECURSIVE CountIf(_, _)
CountIf(s, v) ==
  IF s = <<>> THEN 0
  ELSE (IF Head(s) = v THEN 1 ELSE 0) + CountIf(Tail(s), v)

\* Positions i.. of s whose element is v, as references [g, i] into group g.
RECURSIVE FilterIdx(_, _, _, _)
FilterIdx(s, v, g, i) ==
  IF i > Len(s) THEN <<>>
  ELSE (IF s[i] = v THEN <<[g |-> g, i |-> i]>> ELSE <<>>)
       \o FilterIdx(s, v, g, i + 1)

RECURSIVE Flatten(_)
Flatten(ss) == IF ss = <<>> THEN <<>> ELSE Head(ss) \o Flatten(Tail(ss))

\* ------------------------------------------------------- the environment
Tools ==
  {"eslint", "eslint-api", "tsc", "jest", "vitest", "biome", "prettier",
   "phpstan", "php-cs-fixer", "phpunit"}

IsPhp(t) == t \in {"phpstan", "php-cs-fixer", "phpunit"}

\* tsc and Prettier resolve their targets into a file list themselves.
ResolvesFiles(t) == t \in {"tsc", "prettier"}

\* Prettier and the programmatic ESLint call the tool as a library.
IsLibrary(t) == t \in {"prettier", "eslint-api"}

\* Exit statuses of the wrapped tool: 0, and the tool's own "issues found" code.
ToolStatuses == {0, 2}

\* A message of the tool is one line, or has an embedded newline.
MsgRows == {1, 2}

\* What the wrapper captures from the tool.
NullText == [kind |-> "null"]        \* no stream at all: the spawn failed
EmptyText == [kind |-> "empty"]      \* ""
Garbage == [kind |-> "garbage"]      \* text not in the tool's format, no brace
Throws == [kind |-> "throws"]        \* a library call that throws
Json(v, p, r) == [kind |-> "json", prefix |-> p, value |-> v, rows |-> r]

EmptyObject == [type |-> "object"]   \* the JSON document {}

\* The reports of a tool: sequences of groups (files, suites), each a sequence
\* over the alphabet S (messages, tests), of total size at most b, where a
\* group counts for its length and an empty group for 1.
RECURSIVE Layouts(_, _)
Layouts(S, b) ==
  {<<>>} \cup
  (IF b = 0 THEN {}
   ELSE UNION {{<<g>> \o rest
                  : rest \in Layouts(S, b - (IF g = <<>> THEN 1 ELSE Len(g)))}
                 : g \in SeqsUpTo(S, b)})

HasItems(l) == \E g \in 1..Len(l) : l[g] # <<>>

RowsOf(l) == IF HasItems(l) THEN MsgRows ELSE {1}

\* ESLint --format json: an array of per-file results, each with its counts
\* and its messages (severity 1 = warning, 2 = error).  d is the amount by
\* which a file's errorCount exceeds its number of severity-2 messages.
EslintFile(ms, d) ==
  [errorCount |-> CountIf(ms, 2) + d, warningCount |-> CountIf(ms, 1),
   messages |-> ms]

EslintExact(l) == [g \in 1..Len(l) |-> EslintFile(l[g], 0)]

\* The documents ESLint can print for a layout: consistent, or with the first
\* file's errorCount off by one, or with the first file an empty object.
EslintArrays(l) ==
  {EslintExact(l)} \cup
  (IF l = <<>> THEN {}
   ELSE {<<EslintFile(l[1], 1)>> \o Tail(EslintExact(l))} \cup
        (IF l[1] = <<>> THEN {<<EmptyObject>> \o Tail(EslintExact(l))} ELSE {}))

EslintStdouts ==
  {EmptyText, Garbage, Json(EmptyObject, FALSE, 1)} \cup
  UNION {{Json([type |-> "array", items |-> fs], FALSE, r)
            : fs \in EslintArrays(l), r \in RowsOf(l)}
           : l \in Layouts({1, 2}, MaxItems)}

\* eslint.lintFiles(): the same array, in memory, or an exception.
EslintApiResults ==
  {Throws} \cup
  UNION {{Json([type |-> "array", items |-> EslintExact(l)], FALSE, r)
            : r \in RowsOf(l)}
           : l \in Layouts({1, 2}, MaxItems)}

\* tsc --pretty false: one line `file(line,col): error|warning TSn: message`
\* per located diagnostic ("error", "warning"), lines `error TSn: message` of
\* diagnostics without a location ("global"), and the other lines: banner,
\* summary, the indented continuation of a message ("noise").
TscLines == {"error", "warning", "global", "noise"}

TscStdouts ==
  {[kind |-> "text", lines |-> ls] : ls \in SeqsUpTo(TscLines, MaxItems)}

\* jest --json / vitest --reporter=json: suites with their assertion results.
\* A suite fails when one of its tests fails; rt says whether a suite without
\* assertion results is one that failed to run.
JestSuite(ts, rt) ==
  [status |-> IF CountIf(ts, "failed") > 0 \/ (ts = <<>> /\ rt)
                THEN "failed" ELSE "passed",
   assertionResults |-> ts]

JestReport(l, rt) ==
  LET suites == [g \in 1..Len(l) |-> JestSuite(l[g], rt)]
  IN [type |-> "object",
      success |-> \A g \in 1..Len(l) : suites[g].status = "passed",
      numFailedTests |-> CountIf(Flatten(l), "failed"),
      numPassedTests |-> CountIf(Flatten(l), "passed"),
      testResults |-> suites]

JestStdouts ==
  {EmptyText, Garbage} \cup
  {Json(EmptyObject, p, 1) : p \in BOOLEAN} \cup
  UNION {{Json(JestReport(l, rt), p, r)
            : rt \in (IF \E g \in 1..Len(l) : l[g] = <<>> THEN BOOLEAN ELSE {FALSE}),
              p \in BOOLEAN,
              r \in (IF CountIf(Flatten(l), "failed") > 0 THEN MsgRows ELSE {1})}
           : l \in Layouts({"failed", "passed"}, MaxItems)}

\* biome lint --reporter=json: a summary and the diagnostics; the summary's
\* error count may exceed the error diagnostics listed, or be absent.
BiomeReports(ds) ==
  {[type |-> "object",
    summary |-> [errors |-> CountIf(ds, "error") + d,
                 warnings |-> CountIf(ds, "warning")],
    diagnostics |-> ds] : d \in {0, 1}}
  \cup {[type |-> "object", diagnostics |-> ds]}

BiomeStdouts ==
  {EmptyText, Garbage} \cup
  {Json(EmptyObject, p, 1) : p \in BOOLEAN} \cup
  UNION {{Json(v, p, r) : v \in BiomeReports(ds), p \in BOOLEAN,
                          r \in (IF ds = <<>> THEN {1} ELSE MsgRows)}
           : ds \in SeqsUpTo({"error", "warning"}, MaxItems)}

\* prettier.check() of each of the n resolved files, or an exception.
PrettierChecks(n) ==
  {Throws} \cup
  {[kind |-> "checks", formatted |-> fs]
     : fs \in {q \in SeqsUpTo(BOOLEAN, n) : Len(q) = n}}

\* phpstan --error-format=json: totals and a map of files to messages; the
\* map is the array [] when empty.  e is totals.errors (errors not in a file).
PhpstanFiles(l) ==
  [type |-> IF l = <<>> THEN "array" ELSE "object",
   items |-> [g \in 1..Len(l) |-> [errors |-> Len(l[g]), messages |-> l[g]]]]

PhpstanReports(l) ==
  {[type |-> "object",
    totals |-> [errors |-> e, file_errors |-> Len(Flatten(l))],
    files |-> PhpstanFiles(l)] : e \in {0, 1}}
  \cup {[type |-> "object", files |-> PhpstanFiles(l)]}

PhpstanStdouts ==
  {EmptyText, Garbage, Json(EmptyObject, FALSE, 1)} \cup
  UNION {{Json(v, FALSE, r) : v \in PhpstanReports(l), r \in RowsOf(l)}
           : l \in Layouts({"message"}, MaxItems)}

\* php-cs-fixer fix --dry-run --format=json: the files that need fixing.
PhpCsFixerStdouts ==
  {EmptyText, Garbage, Json(EmptyObject, FALSE, 1)} \cup
  {Json([type |-> "object", files |-> fs], FALSE, 1)
     : fs \in SeqsUpTo({"file"}, MaxItems)}

\* phpunit --log-junit: <testsuites><testsuite ...> with nested suites and
\* test cases; a case may hold <failure>, <error> and <skipped> children.
PassedCase == [failure |-> FALSE, error |-> FALSE, skipped |-> FALSE]
FailureCase == [failure |-> TRUE, error |-> FALSE, skipped |-> FALSE]
ErrorCase == [failure |-> FALSE, error |-> TRUE, skipped |-> FALSE]
SkippedCase == [failure |-> FALSE, error |-> FALSE, skipped |-> TRUE]
FailureSkippedCase == [failure |-> TRUE, error |-> FALSE, skipped |-> TRUE]

CaseChildren ==
  {PassedCase, FailureCase, ErrorCase, SkippedCase, FailureSkippedCase}

\* <testcase name= class=> elements with the children cs: the k-th test
\* method of a class is named after k in whichever suite it stands.
TestCases(cs, class) ==
  [k \in 1..Len(cs) |->
     [name |-> "test" \o ToString(k), class |-> class,
      failure |-> cs[k].failure, error |-> cs[k].error, skipped |-> cs[k].skipped]]

Suite(name, cs, class, children) ==
  [name |-> name, cases |-> TestCases(cs, class), children |-> children]

Leaf(name, cs, class) == Suite(name, cs, class, <<>>)

\* The shapes of a log: one suite, one suite with a nested suite, two
\* suites, no suite (the log of a single test class), or cases next to a suite.
JUnitShapes == {"suite", "nested", "two", "root", "mixed"}

\* The content of the root suite holding the cases cs in shape l: its own
\* test cases and its nested suites.
JUnitSuites(cs, l) ==
  LET h == Len(cs) \div 2
      a == SubSeq(cs, 1, h)
      b == SubSeq(cs, h + 1, Len(cs))
      Root(own, suites) == [cases |-> TestCases(own, "Root"), suites |-> suites]
  IN CASE l = "suite" -> Root(<<>>, <<Leaf("A", cs, "A")>>)
       [] l = "nested" ->
            Root(<<>>, <<Suite("A", a, "A", <<Leaf("A::data", b, "A")>>)>>)
       [] l = "two" -> Root(<<>>, <<Leaf("A", a, "A"), Leaf("B", b, "B")>>)
       [] l = "root" -> Root(cs, <<>>)
       [] l = "mixed" -> Root(a, <<Leaf("A", b, "A")>>)

CountChild(cs, child) == Len(SelectSeq(cs, LAMBDA c : c[child]))

\* The root suite with its own totals; d is the amount by which its
\* failures attribute exceeds the cases with a <failure> child.
JUnitReport(cs, d, l) ==
  LET r == JUnitSuites(cs, l)
  IN [type |-> "junit", tests |-> Len(cs),
      failures |-> CountChild(cs, "failure") + d,
      errors |-> CountChild(cs, "error"),
      skipped |-> CountChild(cs, "skipped"),
      cases |-> r.cases,
      suites |-> r.suites]

\* The JUnit log after the run: not written, not XML, or a report.
JUnitLogs ==
  {[kind |-> "nofile"], [kind |-> "badxml"]} \cup
  {[kind |-> "xml", value |-> JUnitReport(t.cs, t.d, t.l), rows |-> t.r]
     : t \in {u \in [cs : SeqsUpTo(CaseChildren, MaxItems), d : {0, 1},
                     l : JUnitShapes, r : MsgRows]
                : u.r \in (IF CountChild(u.cs, "failure") + CountChild(u.cs, "error") = 0
                             THEN {1} ELSE MsgRows)}}

\* The outputs tool t can produce when run on n resolved files.
Stdouts(t, n) ==
  CASE t = "eslint" -> EslintStdouts
    [] t = "eslint-api" -> EslintApiResults
    [] t = "tsc" -> TscStdouts
    [] t \in {"jest", "vitest"} -> JestStdouts
    [] t = "biome" -> BiomeStdouts
    [] t = "prettier" -> PrettierChecks(n)
    [] t = "phpstan" -> PhpstanStdouts
    [] t = "php-cs-fixer" -> PhpCsFixerStdouts
    [] t = "phpunit" -> JUnitLogs

\* What is left of an output larger than maxBuffer: the first bytes of it.
\* A cut JSON document is no document; cut tsc text is still lines.
Truncated(t) ==
  CASE t = "tsc" ->
         {[kind |-> "cut", lines |-> ls]
            : ls \in SeqsUpTo({"error", "warning", "noise"}, MaxItems)}
    [] t \in {"eslint", "jest", "vitest", "biome"} -> {[kind |-> "truncated"]}
    [] OTHER -> {}

\* The wrappers that call execFileSync without a stdio option: Node then
\* copies what the child wrote on stderr to the wrapper's own stderr.
ForwardsStderr(t) == t \in {"eslint", "tsc", "vitest"}

\* Whether the tool wrote on its stderr (warnings, notices).  The other
\* wrappers capture the stream and show it only next to a parse failure.
StderrOf(t) == IF ForwardsStderr(t) THEN BOOLEAN ELSE {FALSE}

\* What PHPUnit prints on its stdout next to the JUnit log it writes (the
\* log is the `stdout` of its runs here): its summary, or nothing when it is
\* configured to print on stderr.  The wrapper captures it in $stdout.
Printed(t) == IF t = "phpunit" THEN {EmptyText, Garbage} ELSE {NullText}

\* The runs of the tool: it exits with a status and its output, or, when the
\* output outgrows maxBuffer, it is killed (no status) and the output is cut.
ChildRuns(t, n) ==
  {[status |-> s, stdout |-> o, stderr |-> e, printed |-> p]
     : s \in (IF IsLibrary(t) THEN {0} ELSE ToolStatuses), o \in Stdouts(t, n),
       e \in StderrOf(t), p \in Printed(t)}
  \cup {[status |-> NullStatus, stdout |-> o, stderr |-> FALSE, printed |-> NullText]
          : o \in Truncated(t)}

\* The file tree the targets of tsc and Prettier name: "file" is a source
\* file, "other" a file of an extension the tool does not look for, "absent"
\* does not exist, "dir" and "emptydir" are directories with these entries.
File(name) == [name |-> name, type |-> "file", entries |-> <<>>]
Dir(name, entries) == [name |-> name, type |-> "dir", entries |-> entries]

readdirSync(dir) ==
  IF dir = "dir"
    THEN <<File("x.ts"), File("notes.txt"), File(".config.ts"),
           Dir("node_modules", <<File("dep.ts")>>),
           Dir("lib", <<File("y.tsx"), File("types.d.ts"), File("LICENSE")>>),
           Dir(".cache", <<File("tmp.ts")>>)>>
    ELSE <<File("notes.txt"), File(".config.ts"),
           Dir("node_modules", <<File("dep.ts")>>)>>

\* The command lines of tsc and Prettier over that tree.
PathLists == SeqsUpTo({"file", "other", "absent", "dir", "emptydir"}, MaxTargets)

\* The command lines: targets that exist as files or do not exist.
TargetLists(t) ==
  IF ResolvesFiles(t) THEN SeqsUpTo({"file", "absent"}, MaxTargets)
  ELSE {<<>>, <<"file">>}

\* The tool binary: present, absent, or present but impossible to run.  A
\* library is part of the wrapper's own dependencies.
Binaries(t) == IF IsLibrary(t) THEN {"ok"} ELSE {"ok", "missing", "unspawnable"}

\* ------------------------------------------------------ Node child_process
\* execFileSync: a binary that cannot be spawned yields an error whose stdout
\* and status are null; a child that ran yields its stdout and status, and
\* the call throws on a non-zero status.
ExecFileSync(binary, c) ==
  IF binary # "ok"
    THEN [threw |-> TRUE, stdout |-> NullText, status |-> NullStatus]
    ELSE [threw |-> c.status # 0, stdout |-> c.stdout, status |-> c.status]

\* spawnSync never throws: the same fields, returned.
SpawnSync(binary, c) ==
  IF binary # "ok"
    THEN [stdout |-> NullText, status |-> NullStatus]
    ELSE [stdout |-> c.stdout, status |-> c.status]

\* JavaScript truthiness of a captured stream: null and "" are falsy.
Truthy(text) == text.kind \notin {"null", "empty"}

\* JSON.parse(text) / json_decode succeed: the whole text is one document.
JsonParses(text) == text.kind = "json" /\ ~text.prefix

\* A variant that parses the text from its first character.
JsonFromStart(text) == text.kind = "json" /\ ~text.prefix

\* text.indexOf("{") finds a brace, and the text from it on is one document.
JsonFromBrace(text) == text.kind = "json"

\* ------------------------------------------------------- terminal writes
\* part: the part of the finding's message the line carries.
Line(k, r, n, g, i, part) ==
  [kind |-> k, rows |-> r, count |-> n, g |-> g, i |-> i, part |-> part]
PassLine == Line("pass", 1, 0, 0, 0, "none")
FailLine(n) == Line("fail", 1, n, 0, 0, "none")
FindingLine(ref, r, part) == Line("finding", r, 0, ref.g, ref.i, part)
DetailsLine == Line("details", 1, 0, 0, 0, "none")

FindingLines(refs, r, part) ==
  [k \in 1..Len(refs) |-> FindingLine(refs[k], r, part)]

\* Outcomes of the report step: a pass, a fail, a throw after the header.
Pass == [lines |-> <<PassLine>>, status |-> 0]
Fail(n, findingLines) ==
  [lines |-> <<FailLine(n)>> \o findingLines \o <<DetailsLine>>, status |-> 1]
HeaderThenThrow(n) == [lines |-> <<FailLine(n)>>, status |-> 2]

\* What an adapter hands on, and what a step hands on when it throws.
NoResults == [type |-> "none"]
NoCounts == [errors |-> 0, warnings |-> 0]
Thrown == [ok |-> FALSE]
Captured(text, status) == [ok |-> TRUE, rawOutput |-> text, exitCode |-> status]
Adapted(res, e, w) ==
  [ok |-> TRUE, results |-> res, counts |-> [errors |-> e, warnings |-> w]]

\* ------------------------------------------------ llm-eslint.js (native)
\* A variant whose catch block rethrows whatever the child printed.
eslint_invokeRethrow(binary, c) ==
  LET r == ExecFileSync(binary, c)
  IN IF ~r.threw THEN Captured(r.stdout, 0) ELSE Thrown

eslint_invoke(binary, c) ==
  LET r == ExecFileSync(binary, c)
  IN IF ~r.threw THEN Captured(r.stdout, 0)
     ELSE IF Truthy(r.stdout) THEN Captured(r.stdout, r.status)
     ELSE Thrown

RECURSIVE eslint_sum(_, _)
eslint_sum(items, k) ==
  IF items = <<>> THEN 0
  ELSE Add(Num(Head(items), k), eslint_sum(Tail(items), k))

\* A variant that adds up the wrong field of each file.
eslint_totalOfWarnings(results) == eslint_sum(results.items, "warningCount")

eslint_totalErrors(results) == eslint_sum(results.items, "errorCount")

eslint_totalWarnings(results) == eslint_sum(results.items, "warningCount")

\* JSON.parse, then the for...of over the results, which throws when the
\* document is not an array.
eslint_adapt(jsonOutput) ==
  IF ~JsonParses(jsonOutput) THEN Thrown
  ELSE IF jsonOutput.value.type # "array" THEN Thrown
  ELSE Adapted(jsonOutput.value, eslint_totalErrors(jsonOutput.value),
               eslint_totalWarnings(jsonOutput.value))

RECURSIVE eslint_flatMap(_, _)
eslint_flatMap(items, g) ==
  IF g > Len(items) THEN <<>>
  ELSE FilterIdx(items[g].messages, 2, g, 1) \o eslint_flatMap(items, g + 1)

\* A variant that leaves out the severity filter.
eslint_topMessages(results) ==
  Slice(Flatten([g \in 1..Len(results.items) |->
                   [i \in 1..Len(results.items[g].messages) |-> [g |-> g, i |-> i]]]),
        3)

eslint_topErrors(results) == Slice(eslint_flatMap(results.items, 1), 3)

eslint_report(results, counts, rows) ==
  IF counts.errors = 0 THEN Pass
  ELSE IF \E g \in 1..Len(results.items) : ~Has(results.items[g], "messages")
    THEN HeaderThenThrow(counts.errors)
  ELSE Fail(counts.errors, FindingLines(eslint_topErrors(results), rows, "whole"))

\* ------------------------------------------ llm-eslint.js (programmatic)
eslintapi_invoke(c) ==
  IF c.stdout.kind = "throws" THEN Thrown ELSE Captured(c.stdout, 0)

eslintapi_fileResults(items) ==
  [g \in 1..Len(items) |->
     [error_count |-> Len(FilterIdx(items[g].messages, 2, g, 1)),
      warning_count |-> Len(FilterIdx(items[g].messages, 1, g, 1)),
      errors |-> FilterIdx(items[g].messages, 2, g, 1),
      warnings |-> FilterIdx(items[g].messages, 1, g, 1)]]

RECURSIVE eslintapi_total(_, _)
eslintapi_total(fileResults, k) ==
  IF fileResults = <<>> THEN 0
  ELSE Head(fileResults)[k] + eslintapi_total(Tail(fileResults), k)

eslintapi_adapt(raw) ==
  LET fileResults == eslintapi_fileResults(raw.value.items)
      totalErrors == eslintapi_total(fileResults, "error_count")
      totalWarnings == eslintapi_total(fileResults, "warning_count")
  IN Adapted([type |-> "output",
              exit_code |-> IF totalErrors > 0 THEN 1 ELSE 0,
              error_count |-> totalErrors,
              items |-> fileResults],
             totalErrors, totalWarnings)

eslintapi_topErrors(results) ==
  Slice(Flatten([g \in 1..Len(results.items) |-> results.items[g].errors]), 3)

eslintapi_report(results, counts, rows) ==
  IF counts.errors = 0 THEN Pass
  ELSE Fail(counts.errors, FindingLines(eslintapi_topErrors(results), rows, "whole"))

\* ------------------------------------------------------------ llm-tsc.js
\* statSync(target, { throwIfNoEntry: false }) in the file tree of the
\* environment: stat.isFile(), stat.isDirectory(), or undefined.
statSync(target) ==
  CASE target \in {"file", "other"} -> "file"
    [] target \in {"dir", "emptydir"} -> "dir"
    [] OTHER -> "none"

\* entry.name.startsWith(".")
startsWithDot(name) == name \in {".config.ts", ".cache"}

\* /\.(ts|tsx)$/.test(name) && !name.endsWith(".d.ts") in llm-tsc.js,
\* extensions.some((ext) => name.endsWith(ext)) in llm-prettier.js.
hasExtension(t, name) ==
  IF t = "tsc" THEN name \in {"x.ts", "y.tsx", ".config.ts", "dep.ts", "tmp.ts"}
  ELSE name \in {"x.ts", "y.tsx", "types.d.ts", ".config.ts", "dep.ts", "tmp.ts"}

\* collectTsFiles (llm-tsc.js) and walk (llm-prettier.js) over the entries
\* of a directory.
RECURSIVE walk(_, _)
walk(t, entries) ==
  IF entries = <<>> THEN <<>>
  ELSE LET entry == Head(entries)
       IN (IF startsWithDot(entry.name) \/ entry.name = "node_modules" THEN <<>>
           ELSE IF entry.type = "dir" THEN walk(t, entry.entries)
           ELSE IF hasExtension(t, entry.name) THEN <<entry.name>>
           ELSE <<>>)
          \o walk(t, Tail(entries))

\* A variant that takes a named file only when its extension is supported.
resolveTargetsByExtension(t, targets) ==
  Flatten([k \in 1..Len(targets) |->
             IF statSync(targets[k]) = "file"
               THEN (IF targets[k] = "file" THEN <<targets[k]>> ELSE <<>>)
             ELSE IF statSync(targets[k]) = "dir"
               THEN walk(t, readdirSync(targets[k]))
             ELSE <<>>])

\* resolveTargets (llm-tsc.js) and the target loop of llm-prettier.js: a
\* target that does not exist is skipped, a file is taken as it is, a
\* directory is walked.
resolveTargets(t, targets) ==
  Flatten([k \in 1..Len(targets) |->
             IF statSync(targets[k]) = "file" THEN <<targets[k]>>
             ELSE IF statSync(targets[k]) = "dir"
               THEN walk(t, readdirSync(targets[k]))
             ELSE <<>>])

tsc_invoke(binary, c) ==
  LET r == ExecFileSync(binary, c)
  IN IF ~r.threw THEN Captured(r.stdout, 0) ELSE Captured(r.stdout, r.status)

\* /^(.+?)\((\d+),(\d+)\):\s+(error|warning)\s+(TS\d+):\s+(.+)$/gm on one line:
\* it needs the location before the category.
diagRegex(line) == line \in {"error", "warning"}

\* A variant of the loop that ends at the first line without a match.
RECURSIVE tsc_matchesUntilMismatch(_, _)
tsc_matchesUntilMismatch(lines, i) ==
  IF i > Len(lines) \/ ~diagRegex(lines[i]) THEN <<>>
  ELSE <<[severity |-> lines[i], i |-> i]>> \o tsc_matchesUntilMismatch(lines, i + 1)

\* diagRegex applied over the text: one diagnostic per matching line.  The
\* text of a null rawOutput is "null", which matches nothing.
RECURSIVE tsc_matches(_, _)
tsc_matches(lines, i) ==
  IF i > Len(lines) THEN <<>>
  ELSE (IF diagRegex(lines[i]) THEN <<[severity |-> lines[i], i |-> i]>>
        ELSE <<>>)
       \o tsc_matches(lines, i + 1)

tsc_diagnostics(rawOutput) ==
  IF rawOutput.kind \in {"text", "cut"} THEN tsc_matches(rawOutput.lines, 1)
  ELSE <<>>

tsc_count(diagnostics, sev) ==
  Len(SelectSeq(diagnostics, LAMBDA d : d.severity = sev))

\* A variant that stores exit_code 0 whatever it has found.
tsc_adaptExitCodeZero(rawOutput) ==
  LET diagnostics == tsc_diagnostics(rawOutput)
      errorCount == tsc_count(diagnostics, "error")
  IN Adapted([type |-> "output",
              exit_code |-> 0,
              error_count |-> errorCount,
              items |-> diagnostics],
             errorCount, tsc_count(diagnostics, "warning"))

tsc_adapt(rawOutput) ==
  LET diagnostics == tsc_diagnostics(rawOutput)
      errorCount == tsc_count(diagnostics, "error")
  IN Adapted([type |-> "output",
              exit_code |-> IF errorCount > 0 THEN 1 ELSE 0,
              error_count |-> errorCount,
              items |-> diagnostics],
             errorCount, tsc_count(diagnostics, "warning"))

tsc_report(results, counts) ==
  IF counts.errors = 0 THEN Pass
  ELSE LET top == Slice(results.items, 3)
       IN Fail(counts.errors,
               [k \in 1..Len(top) |-> FindingLine([g |-> 0, i |-> top[k].i], 1, "whole")])

\* ----------------------------------------------------------- llm-jest.js
\* `proc.stdout || ""`
OrEmpty(text) == IF Truthy(text) THEN text ELSE EmptyText

jest_invoke(binary, c) == Captured(OrEmpty(SpawnSync(binary, c).stdout), 0)

\* indexOf("{"), JSON.parse of the rest, and the counts the report prints.
jest_adapt(rawOutput) ==
  IF ~JsonFromBrace(rawOutput) THEN Thrown
  ELSE Adapted(rawOutput.value, Num(rawOutput.value, "numFailedTests"), 0)

jest_failedSuites(testResults) ==
  FilterIdx([g \in 1..Len(testResults) |-> testResults[g].status], "failed", 0, 1)

\* suite.assertionResults?.find((a) => a.status === "failed"), 0 when none.
jest_failedTest(suite) ==
  LET failed == FilterIdx(suite.assertionResults, "failed", 0, 1)
  IN IF failed = <<>> THEN 0 ELSE Head(failed).i

RECURSIVE jest_lines(_, _)
jest_lines(testResults, suites) ==
  IF suites = <<>> THEN <<>>
  ELSE LET g == Head(suites).i
           t == jest_failedTest(testResults[g])
       IN (IF t > 0 THEN <<FindingLine([g |-> g, i |-> t], 1, "first")>> ELSE <<>>)
          \o jest_lines(testResults, Tail(suites))

jest_report(results, counts) ==
  IF Has(results, "success") /\ results.success THEN Pass
  ELSE IF ~Has(results, "testResults") THEN HeaderThenThrow(counts.errors)
  ELSE Fail(counts.errors,
            jest_lines(results.testResults,
                       Slice(jest_failedSuites(results.testResults), 3)))

\* --------------------------------------------------------- llm-vitest.js
vitest_invoke(binary, c) ==
  LET r == ExecFileSync(binary, c)
  IN IF ~r.threw THEN Captured(r.stdout, 0)
     ELSE IF Truthy(r.stdout) THEN Captured(r.stdout, r.status)
     ELSE Thrown

vitest_adapt(rawOutput) ==
  IF ~JsonFromBrace(rawOutput) THEN Thrown
  ELSE Adapted(rawOutput.value, Num(rawOutput.value, "numFailedTests"), 0)

vitest_report(results, counts) ==
  IF Has(results, "success") /\ results.success THEN Pass
  ELSE IF ~Has(results, "testResults") THEN HeaderThenThrow(counts.errors)
  ELSE Fail(counts.errors,
            jest_lines(results.testResults,
                       Slice(jest_failedSuites(results.testResults), 3)))

\* ---------------------------------------------------------- llm-biome.js
\* A variant that takes a non-zero status of Biome for a failed run.
biome_invokeCheckStatus(binary, c) ==
  LET proc == SpawnSync(binary, c)
  IN IF proc.status # 0 THEN Thrown ELSE Captured(OrEmpty(proc.stdout), proc.status)

biome_invoke(binary, c) ==
  LET proc == SpawnSync(binary, c)
  IN Captured(OrEmpty(proc.stdout), proc.status)

\* `results.summary?.errors || 0`
biome_count(results, k) ==
  IF Has(results, "summary") /\ Has(results.summary, k)
    THEN results.summary[k] ELSE 0

biome_adapt(stdout) ==
  IF ~JsonFromBrace(stdout) THEN Thrown
  ELSE Adapted(stdout.value, biome_count(stdout.value, "errors"),
               biome_count(stdout.value, "warnings"))

\* `(results.diagnostics || []).slice(0, 3)`
biome_topDiags(results) ==
  IF Has(results, "diagnostics")
    THEN Slice([k \in 1..Len(results.diagnostics) |-> [g |-> 0, i |-> k]], 3)
    ELSE <<>>

\* A variant that lets the warnings decide as well.
biome_reportOnAnyFinding(results, counts, rows) ==
  IF counts.errors + counts.warnings = 0 THEN Pass
  ELSE Fail(counts.errors, FindingLines(biome_topDiags(results), rows, "whole"))

biome_report(results, counts, rows) ==
  IF counts.errors = 0 THEN Pass
  ELSE Fail(counts.errors, FindingLines(biome_topDiags(results), rows, "whole"))

\* ------------------------------------------------------- llm-prettier.js
prettier_invoke(c) ==
  IF c.stdout.kind = "throws" THEN Thrown ELSE Captured(c.stdout, 0)

prettier_adapt(checks) ==
  LET unformattedCount == CountIf(checks.formatted, FALSE)
  IN Adapted([type |-> "output",
              exit_code |-> IF unformattedCount > 0 THEN 1 ELSE 0,
              error_count |-> unformattedCount,
              items |-> checks.formatted],
             unformattedCount, 0)

prettier_topFiles(results) == Slice(FilterIdx(results.items, FALSE, 0, 1), 3)

prettier_report(results, counts) ==
  IF counts.errors = 0 THEN Pass
  ELSE Fail(counts.errors, FindingLines(prettier_topFiles(results), 1, "whole"))

\* ------------------------------------------------------- llm-phpstan.php
\* proc_open, stream_get_contents, proc_close.
proc_open(binary, c) ==
  IF binary = "unspawnable" THEN Thrown ELSE Captured(c.stdout, c.status)

SetField(o, k, v) == [f \in DOMAIN o \cup {k} |-> IF f = k THEN v ELSE o[f]]

\* A variant whose condition is always met.
phpstan_normalizeAlways(data) ==
  SetField(data, "files", [type |-> "object", items |-> <<>>])

\* `if (empty($data['files'])) { $data['files'] = new \stdClass(); }`
phpstan_normalize(data) ==
  IF ~Has(data, "files") \/ data.files.items = <<>>
    THEN SetField(data, "files", [type |-> "object", items |-> <<>>])
    ELSE data

\* `$data['totals'][k] ?? 0`
phpstan_total(data, k) ==
  IF Has(data, "totals") /\ Has(data.totals, k) THEN data.totals[k] ELSE 0

phpstan_adapt(stdout) ==
  IF ~JsonParses(stdout) THEN Thrown
  ELSE LET data == phpstan_normalize(stdout.value)
       IN Adapted(data,
                  phpstan_total(data, "errors") + phpstan_total(data, "file_errors"),
                  0)

phpstan_topErrors(data) ==
  Slice(Flatten([g \in 1..Len(data.files.items) |->
                   [i \in 1..Len(data.files.items[g].messages) |-> [g |-> g, i |-> i]]]),
        3)

phpstan_report(data, counts, rows) ==
  IF counts.errors = 0 THEN Pass
  ELSE Fail(phpstan_total(data, "file_errors"),
            FindingLines(phpstan_topErrors(data), rows, "whole"))

\* -------------------------------------------------- llm-php-cs-fixer.php
\* `count($data['files'] ?? [])`
phpcsfixer_fileCount(data) == IF Has(data, "files") THEN Len(data.files) ELSE 0

phpcsfixer_adapt(stdout) ==
  IF ~JsonParses(stdout) THEN Thrown
  ELSE Adapted(stdout.value, phpcsfixer_fileCount(stdout.value), 0)

phpcsfixer_report(data, counts) ==
  IF counts.errors = 0 THEN Pass
  ELSE Fail(counts.errors,
            FindingLines(Slice([k \in 1..Len(data.files) |-> [g |-> 0, i |-> k]], 3),
                         1, "whole"))

\* ------------------------------------------------------- llm-phpunit.php
\* The status of a <testcase>: each child found overwrites the status.
phpunit_status(tc) ==
  IF tc.skipped THEN "skipped"
  ELSE IF tc.error THEN "error"
  ELSE IF tc.failure THEN "failed"
  ELSE "passed"

\* One entry of test_cases: the attributes of the <testcase> and its status.
phpunit_case(tc) ==
  [name |-> tc.name, class |-> tc.class, status |-> phpunit_status(tc)]

RECURSIVE parseSuite(_)
RECURSIVE parseSuites(_)
parseSuite(suite) ==
  [name |-> suite.name,
   test_cases |->
     [k \in 1..Len(suite.cases) |-> phpunit_case(suite.cases[k])]
     \o parseSuites(suite.children)]

\* array_merge of the test cases of each nested suite, in order.
parseSuites(children) ==
  IF children = <<>> THEN <<>>
  ELSE parseSuite(Head(children)).test_cases \o parseSuites(Tail(children))

\* A variant that counts the failed and errored test cases it has walked.
phpunit_adaptSummingCases(log) ==
  IF log.kind # "xml" THEN Thrown
  ELSE LET rootSuite == log.value
           suites == [g \in 1..Len(rootSuite.suites) |-> parseSuite(rootSuite.suites[g])]
           failing(g) == Len(SelectSeq(suites[g].test_cases,
                                       LAMBDA tc : tc.status \in {"failed", "error"}))
           RECURSIVE sum(_)
           sum(g) == IF g = 0 THEN 0 ELSE failing(g) + sum(g - 1)
       IN Adapted([type |-> "output",
                   summary |-> [tests |-> rootSuite.tests,
                                errors |-> rootSuite.errors,
                                failures |-> rootSuite.failures,
                                skipped |-> rootSuite.skipped],
                   test_suites |-> suites],
                  sum(Len(suites)), 0)

\* file_exists($junitFile), simplexml_load_file, the conversion to $data.
phpunit_adapt(log) ==
  IF log.kind # "xml" THEN Thrown
  ELSE LET rootSuite == log.value
       IN Adapted([type |-> "output",
                   summary |-> [tests |-> rootSuite.tests,
                                errors |-> rootSuite.errors,
                                failures |-> rootSuite.failures,
                                skipped |-> rootSuite.skipped],
                   test_suites |-> [g \in 1..Len(rootSuite.suites) |->
                                      parseSuite(rootSuite.suites[g])]],
                  rootSuite.failures + rootSuite.errors, 0)

\* The failing test cases of suite g, in order, each with the line it prints:
\* explode("\n", message)[1] for a failure, [0] for an error.
RECURSIVE phpunit_failing(_, _, _, _)
phpunit_failing(cases, g, i, rows) ==
  IF i > Len(cases) THEN <<>>
  ELSE (IF cases[i].status = "failed"
          THEN <<FindingLine([g |-> g, i |-> i], 1,
                             IF rows > 1 THEN "second" ELSE "whole")>>
        ELSE IF cases[i].status = "error"
          THEN <<FindingLine([g |-> g, i |-> i], 1, "first")>>
        ELSE <<>>)
       \o phpunit_failing(cases, g, i + 1, rows)

phpunit_report(data, counts, rows) ==
  IF counts.errors = 0 THEN Pass
  ELSE Fail(counts.errors,
            Slice(Flatten([g \in 1..Len(data.test_suites) |->
                             phpunit_failing(data.test_suites[g].test_cases, g, 1, rows)]),
                  3))

\* ------------------------------------------------------------- dispatch
InvokeOf(t, bin, c) ==
  CASE t = "eslint" -> eslint_invoke(bin, c)
    [] t = "eslint-api" -> eslintapi_invoke(c)
    [] t = "tsc" -> tsc_invoke(bin, c)
    [] t = "jest" -> jest_invoke(bin, c)
    [] t = "vitest" -> vitest_invoke(bin, c)
    [] t = "biome" -> biome_invoke(bin, c)
    [] t = "prettier" -> prettier_invoke(c)
    [] IsPhp(t) -> proc_open(bin, c)

AdaptOf(t, raw) ==
  CASE t = "eslint" -> eslint_adapt(raw)
    [] t = "eslint-api" -> eslintapi_adapt(raw)
    [] t = "tsc" -> tsc_adapt(raw)
    [] t = "jest" -> jest_adapt(raw)
    [] t = "vitest" -> vitest_adapt(raw)
    [] t = "biome" -> biome_adapt(raw)
    [] t = "prettier" -> prettier_adapt(raw)
    [] t = "phpstan" -> phpstan_adapt(raw)
    [] t = "php-cs-fixer" -> phpcsfixer_adapt(raw)
    [] t = "phpunit" -> phpunit_adapt(raw)

ReportOf(t, res, cnt, raw) ==
  CASE t = "eslint" -> eslint_report(res, cnt, raw.rows)
    [] t = "eslint-api" -> eslintapi_report(res, cnt, raw.rows)
    [] t = "tsc" -> tsc_report(res, cnt)
    [] t = "jest" -> jest_report(res, cnt)
    [] t = "vitest" -> vitest_report(res, cnt)
    [] t = "biome" -> biome_report(res, cnt, raw.rows)
    [] t = "prettier" -> prettier_report(res, cnt)
    [] t = "phpstan" -> phpstan_report(res, cnt, raw.rows)
    [] t = "php-cs-fixer" -> phpcsfixer_report(res, cnt)
    [] t = "phpunit" -> phpunit_report(res, cnt, raw.rows)

\* ------------------------------------------------------- artifact names
\* Values randomBytes(4).toString("hex") can return, and the suffixes
\* tempnam() can pick.
RandomHex == {"1a2b3c4d", "5e6f7a8b"}

\* The artifact a concurrent run of the same wrapper has written, with the
\* placeholder tempnam() left next to it when the wrapper is a PHP one.
ConcurrentRunFile == "1a2b3c4d"

randomBytes == RandomHex

\* tempnam() creates a file that did not exist and returns its name.
tempnam(existing) == RandomHex \ existing

\* The names the run can give its artifact.
NewTmpFile(t) == IF IsPhp(t) THEN tempnam({ConcurrentRunFile}) ELSE randomBytes

\* --------------------------------------------------- artifact content
\* json_encode of what json_decode($stdout, true) returned: the decoded value
\* is a PHP array, and an empty PHP array is encoded as [] whether it came
\* from {} or from [].
json_encode(data) ==
  IF DOMAIN data = {"type"} THEN [type |-> "array", items |-> <<>>] ELSE data

\* JSON.stringify(results, null, 2): the text of the same document.
JSON_stringify(results) == results

\* The document a reader gets when it parses the artifact.
Serialized(t, res) == IF IsPhp(t) THEN json_encode(res) ELSE JSON_stringify(res)

\* ---------------------------------------------------------------- state
VARIABLES
  tool,        \* the wrapper that runs
  targets,     \* process.argv.slice(2) / array_slice($argv, 1)
  binary,      \* the tool binary: "ok", "missing" or "unspawnable"
  pc,          \* position of the script
  spawns,      \* subprocesses the wrapper has tried to spawn, by purpose
  child,       \* what the tool process did: its exit status and its output
  rawOutput,   \* the output of the tool as captured by the wrapper
  exitCode,    \* the exit status of the tool as captured by the wrapper
  results,     \* the adapter's parsed structure
  counts,      \* the adapter's error and warning counts
  tmpFiles,    \* files of this run in the temp directory
  artifact,    \* the artifact file: "absent", "partial" or "complete"
  tmpFile,     \* the name the run gave its artifact, "none" before
  content,     \* the document the artifact holds once it is complete
  out,         \* writes to stdout, in order
  err,         \* number of messages written to stderr
  exitStatus,  \* status of process.exit / exit, -1 while running
  fault        \* the step at which the run ended with status 2, or "none"

\* The PHP wrappers' child process and its pipes, from proc_open to proc_close.
VARIABLES
  process,     \* the child: "none", "running" or "exited"
  pending,     \* the chunks the child still has to write, each to a stream
  pipes,       \* chunks buffered in the stdout and the stderr pipe
  phpCall      \* the call the wrapper is in, "none" outside of them

vars == <<tool, targets, binary, pc, spawns, child, rawOutput, exitCode,
          results, counts, tmpFiles, artifact, tmpFile, content, out, err,
          exitStatus, fault, process, pending, pipes, phpCall>>

NoPipes == [stdout |-> 0, stderr |-> 0]

NoSpawns == [analysis |-> 0, version |-> 0]

NoChild ==
  [status |-> NullStatus, stdout |-> NullText, stderr |-> FALSE, printed |-> NullText]

\* A wrapper process that has read its command line and done nothing yet.
Started ==
  /\ pc = "targets"
  /\ spawns = NoSpawns
  /\ child = NoChild
  /\ rawOutput = NullText
  /\ exitCode = 0
  /\ results = NoResults
  /\ counts = NoCounts
  /\ tmpFiles = {}
  /\ artifact = "absent"
  /\ tmpFile = "none"
  /\ content = NoResults
  /\ out = <<>>
  /\ err = 0
  /\ exitStatus = -1
  /\ fault = "none"
  /\ process = "none"
  /\ pending = <<>>
  /\ pipes = NoPipes
  /\ phpCall = "none"

Init ==
  /\ tool \in Tools
  /\ targets \in TargetLists(tool)
  /\ binary \in Binaries(tool)
  /\ Started


\* A message on stderr and process.exit(2) / exit(2).
ExitError ==
  /\ pc' = "done"
  /\ exitStatus' = 2
  /\ err' = err + 1
  /\ fault' = pc

Continue(next) ==
  /\ pc' = next
  /\ UNCHANGED <<exitStatus, err, fault>>

\* A variant of llm-phpunit.php that reserves the name of the JUnit log
\* before it looks at its arguments.
CheckTargetsAfterTempnam ==
  /\ pc = "targets"
  /\ IF targets = <<>>
       THEN ExitError
       ELSE Continue(IF IsPhp(tool) THEN "binary"
                     ELSE IF ResolvesFiles(tool) THEN "resolve" ELSE "invoke")
  /\ tmpFiles' = IF tool = "phpunit" THEN tmpFiles \cup {"junit-placeholder"}
                 ELSE tmpFiles
  /\ UNCHANGED <<process, pending, pipes, phpCall, artifact, tmpFile, content, tool, targets, binary, spawns, child,
                 rawOutput, exitCode, results, counts, out>>

\* `if (targets.length === 0)`: usage on stderr, exit 2.
CheckTargets ==
  /\ pc = "targets"
  /\ IF targets = <<>>
       THEN ExitError
       ELSE Continue(IF IsPhp(tool) THEN "binary"
                     ELSE IF ResolvesFiles(tool) THEN "resolve" ELSE "invoke")
  /\ UNCHANGED <<process, pending, pipes, phpCall, artifact, tmpFile, content, tool, targets, binary, spawns, child, rawOutput, exitCode,
                 results, counts, tmpFiles, out>>

\* PHP wrappers: `if (!file_exists($bin))`; llm-phpunit.php then reserves
\* the name of the JUnit log with tempnam().
CheckBinary ==
  /\ pc = "binary"
  /\ IF binary = "missing"
       THEN ExitError /\ UNCHANGED tmpFiles
       ELSE /\ Continue("invoke")
            /\ tmpFiles' = IF tool = "phpunit"
                             THEN tmpFiles \cup {"junit-placeholder"}
                             ELSE tmpFiles
  /\ UNCHANGED <<process, pending, pipes, phpCall, artifact, tmpFile, content, tool, targets, binary, spawns, child, rawOutput, exitCode,
                 results, counts, out>>

\* tsc, Prettier: the targets resolved to files; none left is exit 2.
ResolveTargets ==
  /\ pc = "resolve"
  /\ IF resolveTargets(tool, targets) = <<>>
       THEN ExitError
       ELSE Continue("invoke")
  /\ UNCHANGED <<process, pending, pipes, phpCall, artifact, tmpFile, content, tool, targets, binary, spawns, child, rawOutput, exitCode,
                 results, counts, tmpFiles, out>>

\* The tool runs once; the wrapper captures its output and status, or throws
\* (a message on stderr and process.exit(2)); execFileSync first copies the
\* child's stderr to the wrapper's.
Invoke ==
  /\ pc = "invoke"
  /\ \E c \in (IF binary = "ok"
                 THEN ChildRuns(tool, Len(resolveTargets(tool, targets)))
                 ELSE {NoChild}) :
       LET r == InvokeOf(tool, binary, c)
           forwarded == IF c.stderr THEN 1 ELSE 0
       IN /\ child' = c
          /\ tmpFiles' = IF tool = "phpunit" /\ binary = "ok" /\ c.stdout.kind # "nofile"
                           THEN tmpFiles \cup {"junit"}
                           ELSE tmpFiles
          /\ IF r.ok
               THEN /\ rawOutput' = r.rawOutput
                    /\ exitCode' = r.exitCode
                    /\ pc' = "adapt"
                    /\ err' = err + forwarded
                    /\ UNCHANGED <<exitStatus, fault>>
               ELSE /\ pc' = "done"
                    /\ exitStatus' = 2
                    /\ err' = err + forwarded + 1
                    /\ fault' = pc
                    /\ UNCHANGED <<rawOutput, exitCode>>
  /\ spawns' = IF IsLibrary(tool) THEN spawns
               ELSE [spawns EXCEPT !.analysis = @ + 1]
  /\ UNCHANGED <<process, pending, pipes, phpCall, artifact, tmpFile, content, tool, targets, binary, results, counts, out>>

\* The format adapter: parse, then everything computed before the write.
\* llm-phpunit.php unlinks the JUnit log once it has loaded it; llm-tsc.js
\* runs `tsc --version` for the artifact and ignores its failure.
Adapt ==
  /\ pc = "adapt"
  /\ LET r == AdaptOf(tool, rawOutput)
     IN IF r.ok
          THEN /\ results' = r.results
               /\ counts' = r.counts
               /\ Continue("write")
          ELSE /\ ExitError
               /\ UNCHANGED <<results, counts>>
  /\ tmpFiles' = tmpFiles \ {"junit"}
  /\ spawns' = IF tool = "tsc" THEN [spawns EXCEPT !.version = @ + 1] ELSE spawns
  /\ UNCHANGED <<process, pending, pipes, phpCall, artifact, tmpFile, content, tool, targets, binary, child, rawOutput, exitCode, out>>

\* A variant that starts the write and goes on without waiting for it
\* (fs.writeFile without await).
WriteArtifactUnawaited ==
  /\ pc = "write"
  /\ tmpFiles' = tmpFiles \cup {"artifact"}
                   \cup (IF IsPhp(tool) THEN {"placeholder"} ELSE {})
  /\ artifact' = "partial"
  /\ tmpFile' \in NewTmpFile(tool)
  /\ UNCHANGED content
  /\ Continue("report")
  /\ UNCHANGED <<process, pending, pipes, phpCall, tool, targets, binary, spawns, child, rawOutput, exitCode,
                 results, counts, out>>

\* writeFileSync(tmpFile, JSON.stringify(...)) / file_put_contents: the file
\* is created under its name and the content starts to go in.  The PHP
\* wrappers name the file tempnam(...) . '.json', and tempnam() creates the
\* file it names.
WriteArtifact ==
  /\ pc = "write"
  /\ tmpFiles' = tmpFiles \cup {"artifact"}
                   \cup (IF IsPhp(tool) THEN {"placeholder"} ELSE {})
  /\ artifact' = "partial"
  /\ tmpFile' \in NewTmpFile(tool)
  /\ UNCHANGED content
  /\ Continue("close")
  /\ UNCHANGED <<process, pending, pipes, phpCall, tool, targets, binary, spawns, child, rawOutput, exitCode,
                 results, counts, out>>

\* The same call returns: the content is complete and the file is closed.
CloseArtifact ==
  /\ pc = "close"
  /\ artifact' = "complete"
  /\ content' = Serialized(tool, results)
  /\ Continue("report")
  /\ UNCHANGED <<process, pending, pipes, phpCall, tmpFile, tool, targets, binary, spawns, child, rawOutput, exitCode,
                 results, counts, tmpFiles, out>>

\* The terse report and the exit; a throw while the finding lines are built
\* lands in the catch block after the header is out.
Report ==
  /\ pc = "report"
  /\ LET r == ReportOf(tool, results, counts, rawOutput)
     IN /\ out' = out \o r.lines
        /\ pc' = "done"
        /\ exitStatus' = r.status
        /\ err' = IF r.status = 2 THEN err + 1 ELSE err
        /\ fault' = IF r.status = 2 THEN pc ELSE fault
  /\ UNCHANGED <<process, pending, pipes, phpCall, artifact, tmpFile, content, tool, targets, binary, spawns, child, rawOutput, exitCode,
                 results, counts, tmpFiles>>

Next ==
  \/ CheckTargets
  \/ CheckBinary
  \/ ResolveTargets
  \/ Invoke
  \/ Adapt
  \/ WriteArtifact
  \/ CloseArtifact
  \/ Report

Spec == Init /\ [][Next]_vars

\* ------------------------------------------- the PHP wrappers' subprocess
\* The call of Invoke in the PHP wrappers, step by step: the wrapper and the
\* child run concurrently and meet at the two pipes of proc_open.
mainVars == <<tool, targets, binary, spawns, child, rawOutput, exitCode,
              results, counts, tmpFiles, artifact, tmpFile, content, out>>

\* What the child writes before it exits: chunks, each to one stream.
Streams == {"stdout", "stderr"}
ChildWrites == SeqsUpTo(Streams, MaxChunks)

\* `proc_open($cmd, [0 => pipe r, 1 => pipe w, 2 => pipe w], $pipes)`,
\* `if (!is_resource($process))` exit 2, `fclose($pipes[0])`.
ProcOpen ==
  /\ pc = "invoke"
  /\ IsPhp(tool)
  /\ phpCall = "none"
  /\ IF binary = "ok"
       THEN /\ process' = "running"
            /\ pending' \in ChildWrites
            /\ phpCall' = "read_stdout"
            /\ UNCHANGED <<pc, err, exitStatus, fault>>
       ELSE /\ ExitError
            /\ UNCHANGED <<process, pending, phpCall>>
  /\ UNCHANGED <<pipes, mainVars>>

\* The child writes its next chunk; write(2) blocks while the pipe is full.
ChildWrite ==
  /\ process = "running"
  /\ pending # <<>>
  /\ pipes[Head(pending)] < PipeCapacity
  /\ pipes' = [pipes EXCEPT ![Head(pending)] = @ + 1]
  /\ pending' = Tail(pending)
  /\ UNCHANGED <<process, phpCall, pc, err, exitStatus, fault, mainVars>>

\* The child has written everything: it exits, which closes its pipe ends.
ChildExit ==
  /\ process = "running"
  /\ pending = <<>>
  /\ process' = "exited"
  /\ UNCHANGED <<pending, pipes, phpCall, pc, err, exitStatus, fault, mainVars>>

\* `stream_get_contents($pipes[n]); fclose($pipes[n]);`: takes what the pipe
\* holds, returns at end of file, blocks on an empty pipe that is still open.
stream_get_contents(stream, then) ==
  /\ phpCall = "read_" \o stream
  /\ \/ /\ pipes[stream] > 0
        /\ pipes' = [pipes EXCEPT ![stream] = 0]
        /\ UNCHANGED phpCall
     \/ /\ pipes[stream] = 0
        /\ process = "exited"
        /\ phpCall' = then
        /\ UNCHANGED pipes
  /\ UNCHANGED <<process, pending, pc, err, exitStatus, fault, mainVars>>

\* `$exitCode = proc_close($process)`: waits for the child.
proc_close ==
  /\ phpCall = "proc_close"
  /\ process = "exited"
  /\ phpCall' = "returned"
  /\ UNCHANGED <<process, pending, pipes, pc, err, exitStatus, fault, mainVars>>

PipeInit == Init /\ IsPhp(tool)

PipeNext ==
  \/ CheckTargets
  \/ CheckBinary
  \/ ProcOpen
  \/ ChildWrite
  \/ ChildExit
  \/ stream_get_contents("stdout", "read_stderr")
  \/ stream_get_contents("stderr", "proc_close")
  \/ proc_close

PipeSpec == PipeInit /\ [][PipeNext]_vars

\* ------------------------------------------------------ target resolution
\* llm-tsc.js and llm-prettier.js up to the resolved file list, over the
\* command lines that name files, directories and paths that do not exist.
ResolveInit ==
  /\ tool \in {t \in Tools : ResolvesFiles(t)}
  /\ targets \in PathLists
  /\ binary \in Binaries(tool)
  /\ Started

ResolveNext == CheckTargets \/ ResolveTargets

ResolveSpec == ResolveInit /\ [][ResolveNext]_vars

\* ------------------------------------------- vocabulary of the properties
Done == pc = "done"

\* The tool process ran (the wrapper got a child, or the library call was made).
ToolRan == child # NoChild

\* The adapter accepted the output and produced a result.
Parsed == results.type # "none"

ArtifactWritten == "artifact" \in tmpFiles

\* Rows the run has put on the terminal through stdout.
RECURSIVE Rows(_)
Rows(lines) == IF lines = <<>> THEN 0 ELSE Head(lines).rows + Rows(Tail(lines))

FindingsPrinted == SelectSeq(out, LAMBDA l : l.kind = "finding")

\* Output o is a document of the format tool t documents: every field the
\* adapter of t reads is there.
WellFormed(t, o) ==
  CASE t = "eslint" ->
         /\ JsonParses(o)
         /\ o.value.type = "array"
         /\ \A g \in 1..Len(o.value.items) :
              Has(o.value.items[g], "errorCount") /\ Has(o.value.items[g], "messages")
    [] t \in {"eslint-api", "prettier"} -> o.kind # "throws"
    [] t = "tsc" -> o.kind = "text"
    [] t \in {"jest", "vitest"} ->
         o.kind = "json" /\ Has(o.value, "success") /\ Has(o.value, "testResults")
    [] t = "biome" -> o.kind = "json" /\ Has(o.value, "summary")
    [] t = "phpstan" ->
         JsonParses(o) /\ Has(o.value, "totals") /\ Has(o.value, "files")
    [] t = "php-cs-fixer" -> JsonParses(o) /\ Has(o.value, "files")
    [] t = "phpunit" -> o.kind = "xml"

\* The run failed on the wrapper's side: no target, no file to check, no
\* binary, no spawn, a library call that threw, or output not in the format.
WrapperSideFailure ==
  \/ targets = <<>>
  \/ ResolvesFiles(tool) /\ resolveTargets(tool, targets) = <<>>
  \/ binary # "ok"
  \/ ToolRan /\ ~WellFormed(tool, child.stdout)

\* ---------------------------------------------------------------- C1
\* C1: every finished run has exit status 0, 1 or 2; 0 only when the tool's
\* output was parsed and the error count is 0, 1 only when it was parsed and
\* the error count is above 0, 2 only for a failure on the wrapper's side.
C1_ExitStatusContract ==
  Done =>
    /\ exitStatus \in {0, 1, 2}
    /\ exitStatus = 0 => ToolRan /\ Parsed /\ counts.errors = 0
    /\ exitStatus = 1 => ToolRan /\ Parsed /\ counts.errors > 0
    /\ exitStatus = 2 => WrapperSideFailure

\* ---------------------------------------------------------------- C2
\* C2: when the tool binary is missing or cannot be spawned the run exits 2
\* with a message on stderr, nothing on stdout and no artifact.
C2_SpawnFailureExits2 ==
  Done /\ binary # "ok" =>
    /\ exitStatus = 2
    /\ err > 0
    /\ out = <<>>
    /\ ~ArtifactWritten

\* ---------------------------------------------------------------- C3
\* C3: when the tool ran and its output is not a document of its format
\* (not JSON, not XML, or lacking the fields the adapter reads) the run
\* exits 2 without an artifact; it is never reported as a pass.
C3_UnparseableExits2 ==
  Done /\ ToolRan /\ ~WellFormed(tool, child.stdout) =>
    exitStatus = 2 /\ ~ArtifactWritten

\* ---------------------------------------------------------------- C4
\* C4: tsc left with a non-zero status and no line of its output matches the
\* diagnostic pattern: the error count is 1, there are no findings, and the
\* run prints the failure line and the artifact line and exits 1.
C4_TscFallbackCount ==
  Done /\ tool = "tsc" /\ ToolRan /\ child.status # 0
       /\ tsc_diagnostics(child.stdout) = <<>> =>
    /\ counts.errors = 1
    /\ results.items = <<>>
    /\ exitStatus = 1
    /\ out = <<FailLine(1), DetailsLine>>

\* ---------------------------------------------------------------- C5
RECURSIVE SumSeq(_)
SumSeq(s) == IF s = <<>> THEN 0 ELSE Head(s) + SumSeq(Tail(s))

\* Jest and Vitest decide on the `success` flag, the others on a count.
DecidesOnCount(t) == t \notin {"jest", "vitest"}

\* The findings of error severity that result res of tool t holds (for
\* PHPStan the errors outside any file are as many as totals.errors says).
ErrorFindings(t, res) ==
  CASE t = "eslint" ->
         SumSeq([g \in 1..Len(res.items) |->
                   IF Has(res.items[g], "messages")
                     THEN CountIf(res.items[g].messages, 2) ELSE 0])
    [] t = "eslint-api" ->
         SumSeq([g \in 1..Len(res.items) |-> Len(res.items[g].errors)])
    [] t = "tsc" -> Len(SelectSeq(res.items, LAMBDA d : d.severity = "error"))
    [] t = "biome" ->
         IF Has(res, "diagnostics") THEN CountIf(res.diagnostics, "error") ELSE 0
    [] t = "prettier" -> CountIf(res.items, FALSE)
    [] t = "phpstan" ->
         SumSeq([g \in 1..Len(res.files.items) |-> Len(res.files.items[g].messages)])
         + phpstan_total(res, "errors")
    [] t = "php-cs-fixer" -> IF Has(res, "files") THEN Len(res.files) ELSE 0
    [] t = "phpunit" ->
         SumSeq([g \in 1..Len(res.test_suites) |->
                   Len(SelectSeq(res.test_suites[g].test_cases,
                                 LAMBDA tc : tc.status \in {"failed", "error"}))])

\* The totals the tool states in its own output agree with what it lists.
TotalsAgree(t, res) ==
  CASE t = "eslint" ->
         \A g \in 1..Len(res.items) :
           /\ Has(res.items[g], "errorCount") /\ Has(res.items[g], "messages")
           /\ res.items[g].errorCount = CountIf(res.items[g].messages, 2)
    [] t = "biome" ->
         /\ Has(res, "summary") /\ Has(res, "diagnostics")
         /\ res.summary.errors = CountIf(res.diagnostics, "error")
    [] t = "phpstan" ->
         /\ Has(res, "totals")
         /\ res.totals.file_errors =
              SumSeq([g \in 1..Len(res.files.items) |-> Len(res.files.items[g].messages)])
    [] t = "php-cs-fixer" -> Has(res, "files")
    [] t = "phpunit" ->
         res.summary.failures + res.summary.errors = ErrorFindings(t, res)
    [] OTHER -> TRUE

ReportsWarnings(t) == t \in {"eslint", "eslint-api", "biome", "tsc"}

\* C6: warnings alone never cause failure: a parsed result with error count
\* 0 ends in exit 0 with the single pass line whatever its warning count,
\* and a positive error count of a document of the tool's format ends in
\* exit 1 whatever its warning count.
C6_WarningsNeverFail ==
  Done /\ Parsed /\ ReportsWarnings(tool) =>
    /\ counts.errors = 0 => exitStatus = 0 /\ out = <<PassLine>>
    /\ counts.errors > 0 /\ WellFormed(tool, child.stdout) => exitStatus = 1

\* A run with warnings and no error has passed.
C6_Witness ==
  /\ Done /\ Parsed /\ tool = "biome"
  /\ counts.errors = 0 /\ counts.warnings >= 2
  /\ exitStatus = 0

C8_BoundedReport ==
  Done =>
    /\ exitStatus = 0 => Rows(out) = 1
    /\ exitStatus = 1 => Rows(out) \in 2..5 /\ Len(FindingsPrinted) <= 3

\* ---------------------------------------------------------------- C9
\* The findings the finding lines on stdout name, in the order printed.
PrintedRefs ==
  [k \in 1..Len(FindingsPrinted) |->
     [g |-> FindingsPrinted[k].g, i |-> FindingsPrinted[k].i]]

AllRefs(groups) ==
  Flatten([g \in 1..Len(groups) |-> [i \in 1..Len(groups[g]) |-> [g |-> g, i |-> i]]])

\* The findings of result res that make the run fail, in native order.
ErrorFindingRefs(t, res) ==
  CASE t = "eslint" ->
         Flatten([g \in 1..Len(res.items) |->
                    IF Has(res.items[g], "messages")
                      THEN FilterIdx(res.items[g].messages, 2, g, 1) ELSE <<>>])
    [] t = "eslint-api" -> Flatten([g \in 1..Len(res.items) |-> res.items[g].errors])
    [] t = "tsc" ->
         LET errors == SelectSeq(res.items, LAMBDA d : d.severity = "error")
         IN [k \in 1..Len(errors) |-> [g |-> 0, i |-> errors[k].i]]
    [] t = "biome" ->
         IF Has(res, "diagnostics") THEN FilterIdx(res.diagnostics, "error", 0, 1)
         ELSE <<>>
    [] t = "prettier" -> FilterIdx(res.items, FALSE, 0, 1)
    [] t = "phpstan" ->
         AllRefs([g \in 1..Len(res.files.items) |-> res.files.items[g].messages])
    [] t = "php-cs-fixer" ->
         IF Has(res, "files") THEN [k \in 1..Len(res.files) |-> [g |-> 0, i |-> k]]
         ELSE <<>>
    [] t = "phpunit" ->
         Flatten([g \in 1..Len(res.test_suites) |->
                    LET cases == res.test_suites[g].test_cases
                        at == SelectSeq([i \in 1..Len(cases) |-> i],
                                        LAMBDA i : cases[i].status \in {"failed", "error"})
                    IN [k \in 1..Len(at) |-> [g |-> g, i |-> at[k]]]])
    [] t \in {"jest", "vitest"} ->
         IF Has(res, "testResults")
           THEN Flatten([g \in 1..Len(res.testResults) |->
                           FilterIdx(res.testResults[g].assertionResults, "failed", g, 1)])
           ELSE <<>>

\* The list a wrapper takes its finding lines from: the error findings,
\* except that tsc and Biome list every diagnostic, warnings included, and
\* Jest and Vitest list the failed suites, each standing for its first
\* failed test (for no finding when none of its tests is marked failed).
ReportedFrom(t, res) ==
  CASE t = "tsc" -> [k \in 1..Len(res.items) |-> [g |-> 0, i |-> res.items[k].i]]
    [] t = "biome" ->
         IF Has(res, "diagnostics")
           THEN [k \in 1..Len(res.diagnostics) |-> [g |-> 0, i |-> k]] ELSE <<>>
    [] t \in {"jest", "vitest"} ->
         IF Has(res, "testResults")
           THEN LET suites == SelectSeq([g \in 1..Len(res.testResults) |-> g],
                                        LAMBDA g : res.testResults[g].status = "failed")
                IN [k \in 1..Len(suites) |->
                      LET failed == FilterIdx(res.testResults[suites[k]].assertionResults,
                                              "failed", suites[k], 1)
                      IN IF failed = <<>> THEN [g |-> suites[k], i |-> 0]
                         ELSE Head(failed)]
           ELSE <<>>
    [] OTHER -> ErrorFindingRefs(t, res)

\* The entries among refs that stand for a finding.
Findings(refs) == SelectSeq(refs, LAMBDA r : r.i > 0)

PathPrinted == \E k \in 1..Len(out) : out[k].kind \in {"pass", "details"}

\* C10: a finished run has left an artifact if and only if it exits 0 or 1,
\* and then the report carries the artifact's path; a run that exits 2 has
\* written none.
C10_ArtifactIffReported ==
  Done =>
    /\ ArtifactWritten <=> exitStatus \in {0, 1}
    /\ exitStatus \in {0, 1} => PathPrinted

\* --------------------------------------------------------------- C11
\* C11: whenever a line carrying the artifact's path is on stdout, the
\* artifact is completely written and closed: a reader that takes the path
\* from stdout never finds the file missing or partial.
C11_WrittenBeforePrinted == PathPrinted => artifact = "complete"

\* A fail report with the artifact's path is on stdout.
C11_Witness ==
  /\ PathPrinted /\ exitStatus = 1
  /\ artifact = "complete" /\ ArtifactWritten

\* --------------------------------------------------------------- C12
\* C12: two concurrent runs of the same wrapper never write their artifacts
\* to the same path: the run never names its artifact as the concurrent run
\* named its own.
C12_UniqueArtifactNames == tmpFile # ConcurrentRunFile

\* --------------------------------------------------------------- C13
\* The wrappers that write the tool's own JSON as the artifact.
NativeJson(t) == t \in {"eslint", "jest", "vitest", "biome", "phpstan", "php-cs-fixer"}

\* C13 as stated: the artifact of a native-JSON wrapper holds a document
\* equal to the one the tool printed, for every document of the tool's format.
C13_ArtifactIsToolOutput ==
  /\ artifact = "complete" /\ NativeJson(tool) /\ ToolRan
  /\ WellFormed(tool, child.stdout)
  => content = child.stdout.value

\* The tool's document with its empty containers as the PHP wrappers write
\* them: PHPStan's `files` as {} when it is empty or missing, and a document
\* that is itself {} as [].
Retyped(t, v) ==
  CASE t = "phpstan" ->
         IF ~Has(v, "files") \/ v.files.items = <<>>
           THEN [f \in DOMAIN v \cup {"files"} |->
                   IF f = "files" THEN [type |-> "object", items |-> <<>>] ELSE v[f]]
           ELSE v
    [] t = "php-cs-fixer" ->
         IF DOMAIN v = {"type"} THEN [type |-> "array", items |-> <<>>] ELSE v
    [] OTHER -> v

\* C13 as amended: the artifact of a native-JSON wrapper holds the document
\* the tool printed, member for member, except that the PHP wrappers re-type
\* empty containers: llm-phpstan.php writes `files` as {} when the tool's
\* `files` is empty or missing, and an empty object is written back as [].
C13_ArtifactIsToolOutputRetyped ==
  artifact = "complete" /\ NativeJson(tool) /\ ToolRan =>
    content = Retyped(tool, child.stdout.value)

\* PHPStan reported no file, as [], and the artifact holds {}.
C13_Witness ==
  /\ artifact = "complete" /\ tool = "phpstan"
  /\ Has(child.stdout.value, "totals")
  /\ child.stdout.value.files.type = "array"
  /\ content.files.type = "object"

\* --------------------------------------------------------------- C14
\* The tool's output outgrew the wrapper's capture bound.
Overflowed == ToolRan /\ child.stdout.kind \in {"truncated", "cut"}

\* C14: when the tool's output exceeds the capture bound the run exits 2
\* without an artifact and without a report on stdout.
C14_OverflowExits2 ==
  Done /\ Overflowed => exitStatus = 2 /\ ~ArtifactWritten /\ out = <<>>

\* --------------------------------------------------------------- C15
\* C15: a run without targets exits 2 with a message on stderr, and in it
\* the tool is never run, nothing goes to stdout and no file is created in
\* the temp directory.
C15_NoTargetsNoEffects ==
  Done /\ targets = <<>> =>
    /\ exitStatus = 2 /\ err > 0
    /\ spawns = NoSpawns /\ ~ToolRan
    /\ out = <<>>
    /\ tmpFiles = {} /\ artifact = "absent"

\* llm-phpunit.php was run without targets and has exited.
C15_Witness ==
  /\ Done /\ targets = <<>> /\ tool = "phpunit"
  /\ exitStatus = 2 /\ fault = "targets"

\* --------------------------------------------------------------- C16
\* C16: a run that exits 0 or 1 writes on stdout and nothing on stderr, a
\* run that exits 2 writes on stderr and nothing on stdout: every finished
\* run has written on exactly one of the two streams.
C16_StreamsDisjoint ==
  Done =>
    /\ exitStatus \in {0, 1} => out # <<>> /\ err = 0
    /\ exitStatus = 2 => err > 0 /\ out = <<>>

\* --------------------------------------------------------------- C17
\* The wrapper waits in stream_get_contents for a pipe that is empty and
\* still open; the child waits in write(2) for room in a full pipe.
WrapperBlockedOn(stream) ==
  /\ phpCall = "read_" \o stream
  /\ pipes[stream] = 0
  /\ process = "running"

ChildBlockedOn(stream) ==
  /\ process = "running"
  /\ pending # <<>>
  /\ Head(pending) = stream
  /\ pipes[stream] = PipeCapacity

\* C17: whatever the child writes to stdout and stderr, in any order, the
\* PHP wrapper never blocks reading one pipe while the child blocks writing
\* the other, full pipe.
C17_NoPipeDeadlock ==
  \A s \in Streams : \A o \in Streams \ {s} :
    ~(WrapperBlockedOn(s) /\ ChildBlockedOn(o))

\* --------------------------------------------------------------- C18
\* The <testcase> elements of a suite and of the suites nested in it, in
\* document order, each with the names of its enclosing suites.
RECURSIVE CasesOfSuite(_, _)
RECURSIVE CasesOfSuites(_, _)
CasesOfSuite(suite, path) ==
  [k \in 1..Len(suite.cases) |->
     [path |-> Append(path, suite.name), case |-> suite.cases[k]]]
  \o CasesOfSuites(suite.children, Append(path, suite.name))

CasesOfSuites(suites, path) ==
  IF suites = <<>> THEN <<>>
  ELSE CasesOfSuite(Head(suites), path) \o CasesOfSuites(Tail(suites), path)

\* Every <testcase> of the log: those of the root suite, then those below.
CasesOfLog(root) ==
  [k \in 1..Len(root.cases) |-> [path |-> <<"Root">>, case |-> root.cases[k]]]
  \o CasesOfSuites(root.suites, <<"Root">>)

\* The flat list of the output: the test_cases of every entry of test_suites.
FlatCases(data) ==
  Flatten([g \in 1..Len(data.test_suites) |->
             [k \in 1..Len(data.test_suites[g].test_cases) |->
                [suite |-> data.test_suites[g].name,
                 case |-> data.test_suites[g].test_cases[k]]]])

PhpunitParsed == tool = "phpunit" /\ Parsed

\* C18: every <testcase> of the JUnit log, at any depth and directly under
\* the root suite too, is in the flat list of the output exactly once: the
\* list is the cases of the log, in order.
C18_EveryTestCaseOnce ==
  PhpunitParsed =>
    LET log == CasesOfLog(child.stdout.value)
        flat == FlatCases(results)
    IN /\ Len(flat) = Len(log)
       /\ \A k \in 1..Len(log) : flat[k].case = phpunit_case(log[k].case)

\* --------------------------------------------------------------- C19
\* The test cases below the suites of the root, which the adapter walks.
WalkedCases == CasesOfSuites(child.stdout.value.suites, <<"Root">>)

\* C19: what the output says of a test case tells its enclosing suites:
\* two cases of the log with the same name in different suites differ in
\* the flat list.
C19_QualifiedBySuitePath ==
  PhpunitParsed =>
    LET log == WalkedCases
        flat == FlatCases(results)
    IN \A i, j \in 1..Len(log) :
         log[i].case.name = log[j].case.name /\ log[i].path # log[j].path
           => flat[i] # flat[j]

\* --------------------------------------------------------------- C20
\* C20: a case without failure, error or skip child is passed, with only a
\* skip marker skipped, with a failure child failed, with an error child
\* errored; a failure or error child is never outdone by another child.
C20_StatusOfTestCase ==
  PhpunitParsed =>
    LET log == WalkedCases
        flat == FlatCases(results)
    IN \A k \in 1..Len(log) :
         LET tc == log[k].case
             status == flat[k].case.status
         IN /\ ~tc.failure /\ ~tc.error /\ ~tc.skipped => status = "passed"
            /\ ~tc.failure /\ ~tc.error /\ tc.skipped => status = "skipped"
            /\ tc.failure /\ ~tc.error => status = "failed"
            /\ tc.error /\ ~tc.failure => status = "error"
            /\ tc.failure \/ tc.error => status \notin {"skipped", "passed"}

\* --------------------------------------------------------------- C21
\* The root suite of the log PHPUnit wrote.
RootSuite == child.stdout.value

\* The failed and errored entries of the flat list of the output.
FailingCases(data) ==
  Len(SelectSeq(FlatCases(data), LAMBDA e : e.case.status \in {"failed", "error"}))

\* C21: the counts of a PHPUnit run are the root suite's own attributes and
\* the run exits 1 exactly when root failures + root errors is above 0,
\* whatever the suites and cases below the root add up to; skipped tests
\* never make it fail.
C21_RootTotalsDecide ==
  PhpunitParsed /\ Done =>
    /\ results.summary.failures = RootSuite.failures
    /\ results.summary.errors = RootSuite.errors
    /\ results.summary.skipped = RootSuite.skipped
    /\ counts.errors = RootSuite.failures + RootSuite.errors
    /\ exitStatus = 1 <=> RootSuite.failures + RootSuite.errors > 0
    /\ exitStatus = 0 <=> RootSuite.failures + RootSuite.errors = 0

\* A log whose root states one failure and no error while no test case below
\* it failed, and which holds a skipped test, has been reported as a failure.
C21_Witness ==
  /\ PhpunitParsed /\ Done /\ exitStatus = 1
  /\ RootSuite.failures = 1 /\ RootSuite.errors = 0 /\ RootSuite.skipped > 0
  /\ FailingCases(results) = 0

\* --------------------------------------------------------------- C22
\* The lines of tsc's output that are located diagnostics, by position.
DiagnosticLines(lines) ==
  SelectSeq([i \in 1..Len(lines) |-> i], LAMBDA i : lines[i] \in {"error", "warning"})

TscRan == tool = "tsc" /\ ToolRan /\ child.stdout.kind = "text"

\* C22: the findings of a tsc run are the lines of its output that are
\* located diagnostics, one finding each, in the order of the lines; the
\* other lines give no finding and never end the run with status 2.
C22_OneFindingPerDiagnosticLine ==
  TscRan /\ pc \notin {"invoke", "adapt"} =>
    LET at == DiagnosticLines(child.stdout.lines)
    IN /\ Parsed
       /\ exitStatus # 2
       /\ Len(results.items) = Len(at)
       /\ \A k \in 1..Len(at) :
            /\ results.items[k].i = at[k]
            /\ results.items[k].severity = child.stdout.lines[at[k]]

\* tsc printed a banner line, an error, a diagnostic without location and a
\* warning; the run has ended with its two findings.
C22_Witness ==
  /\ TscRan /\ Done
  /\ child.stdout.lines = <<"noise", "error", "global", "warning">>
  /\ Len(results.items) = 2

\* --------------------------------------------------------------- C23
\* C23: every finding line on stdout carries the first line of the
\* finding's message and nothing more, so it is one line on the terminal.
C23_FirstLineOfMessage ==
  Done =>
    \A k \in 1..Len(FindingsPrinted) :
      /\ FindingsPrinted[k].rows = 1
      /\ FindingsPrinted[k].part # "second"

\* --------------------------------------------------------------- C24
\* The reports of a run: the terse report on stdout, the wrapper's error
\* message on stderr.
ReportsEmitted ==
  (IF out # <<>> THEN 1 ELSE 0) + (IF fault # "none" THEN 1 ELSE 0)

\* C24: a run spawns the analysis at most once and, when it has ended, has
\* emitted exactly one report, on stdout or on stderr.
C24_OneSpawnOneReport ==
  /\ spawns.analysis <= 1
  /\ Done => ReportsEmitted = 1

\* --------------------------------------------------------------- C25
\* C25: a run that exits 1 has printed, on the first line of stdout, a
\* count of at least 1, and that count is the one the decision was taken on.
C25_FailHeaderCountsTheFailure ==
  Done /\ exitStatus = 1 =>
    /\ out[1].kind = "fail"
    /\ out[1].count >= 1
    /\ DecidesOnCount(tool) => out[1].count = counts.errors

\* --------------------------------------------------------------- C26
\* The exit status and the stdout report of the run of this wrapper whose
\* tool process is c: the three steps, one after the other.
OutcomeOfRun(c) ==
  LET i == InvokeOf(tool, binary, c)
      a == AdaptOf(tool, i.rawOutput)
      r == ReportOf(tool, a.results, a.counts, i.rawOutput)
  IN IF ~i.ok \/ ~a.ok THEN [status |-> 2, lines |-> <<>>]
     ELSE [status |-> r.status, lines |-> r.lines]

\* What the tool printed on its stdout.
TerminalStdout(c) == IF tool = "phpunit" THEN c.printed ELSE c.stdout

\* A JUnit log of one passed test.
PassingLog ==
  [kind |-> "xml", value |-> JUnitReport(<<PassedCase>>, 0, "suite"), rows |-> 1]

\* Runs of the tool with exit status s that printed on stdout what run c
\* did: c itself but for the status and, for PHPUnit, for the log written.
SameStdout(c, s) ==
  {[c EXCEPT !.status = s]} \cup
  (IF tool = "phpunit" THEN {[c EXCEPT !.status = s, !.stdout = PassingLog]} ELSE {})

\* C26 as stated: a run of the tool with another exit status and the same
\* stdout ends with the same wrapper exit status and the same report.
C26_OutcomeFromStdoutOnly ==
  Done /\ ToolRan /\ ~IsLibrary(tool) /\ child.status # NullStatus =>
    \A status \in ToolStatuses : \A c \in SameStdout(child, status) :
      /\ TerminalStdout(c) = TerminalStdout(child)
      /\ OutcomeOfRun(c) = [status |-> exitStatus, lines |-> out]

\* C26 as amended: the run of a tool that exited with another status and
\* handed the wrapper the same output (its stdout; for PHPUnit the JUnit log
\* it wrote) ends with the same exit status and the same report as this one.
C26_ToolStatusIsNotRead ==
  Done /\ ToolRan /\ ~IsLibrary(tool) /\ child.status # NullStatus =>
    \A status \in ToolStatuses :
      OutcomeOfRun([child EXCEPT !.status = status])
        = [status |-> exitStatus, lines |-> out]

\* ESLint exited with a non-zero status and printed a document without
\* errors: the run has passed.
C26_Witness ==
  /\ Done /\ tool = "eslint" /\ child.status # 0
  /\ WellFormed(tool, child.stdout)
  /\ exitStatus = 0 /\ out # <<>>

\* --------------------------------------------------------------- C27
\* The wrappers that build the JSON of the artifact themselves.
BuildsOwnJson(t) == t \in {"prettier", "tsc", "eslint-api"}

\* C27: when such a wrapper has written its artifact and exited, the
\* artifact's exit_code is the exit status of the run, 0 or 1, and its
\* summary error count is the count on the first line of the report.
C27_ArtifactAgreesWithExit ==
  Done /\ BuildsOwnJson(tool) /\ ArtifactWritten =>
    /\ exitStatus \in {0, 1}
    /\ content.exit_code = exitStatus
    /\ content.error_count = out[1].count

\* llm-tsc.js has found two errors, written the artifact and exited 1.
C27_Witness ==
  /\ Done /\ tool = "tsc" /\ ArtifactWritten
  /\ exitStatus = 1 /\ content.exit_code = 1 /\ content.error_count = 2


\* ---------------------------------------------------------------- C28
\* The files a command line names that exist.
ExistingTargets == SelectSeq(targets, LAMBDA p : statSync(p) # "none")

\* Entries of the tree that a walk must not return: dot-entries, what lies
\* under a dot-directory or under node_modules, and files whose extension
\* neither tool looks for.
Hidden == {".config.ts", "tmp.ts", "dep.ts"}
Unsupported == {"notes.txt", "LICENSE"}

\* The files of a resolved list.
FilesOf(files) == {files[k] : k \in 1..Len(files)}

ExtractsJson(t) == t \in {"jest", "vitest", "biome"}

\* The tool's stdout is text in front of its JSON document, the text
\* without a brace.
Prefixed(text) == text.kind = "json" /\ text.prefix

\* The tool's stdout has no brace in it.
Braceless(text) == text.kind \in {"empty", "garbage"}

\* The same run of the tool printing its JSON document alone.
DocumentAlone(c) == [c EXCEPT !.stdout.prefix = FALSE]

\* The artifact of a run of the wrapper on what the tool did.
ArtifactOfRun(c) ==
  LET i == InvokeOf(tool, binary, c)
      a == AdaptOf(tool, i.rawOutput)
  IN IF ~i.ok \/ ~a.ok THEN NoResults ELSE Serialized(tool, a.results)

\* C29: in llm-jest.js, llm-vitest.js and llm-biome.js a run on stdout that
\* is brace-free text followed by the tool's JSON document ends with the
\* exit status, the report and the artifact of the run on the document
\* alone, and a run on stdout without any brace ends with exit status 2
\* and no artifact.
C29_PrefixIsDropped ==
  Done /\ ToolRan /\ ExtractsJson(tool) =>
    /\ Prefixed(child.stdout) =>
          /\ OutcomeOfRun(DocumentAlone(child)) = [status |-> exitStatus, lines |-> out]
          /\ content = ArtifactOfRun(DocumentAlone(child))
          /\ artifact = "complete"
    /\ Braceless(child.stdout) =>
          exitStatus = 2 /\ artifact = "absent" /\ tmpFiles = {} /\ out = <<>>

\* C29 witness: Jest printed text in front of a report with a failed test
\* and the run has failed on that test.
C29_Witness ==
  /\ Done /\ tool = "jest" /\ Prefixed(child.stdout)
  /\ WellFormed(tool, child.stdout)
  /\ exitStatus = 1 /\ Len(out) >= 2 /\ artifact = "complete"


\* ---------------------------------------------------------------- C30
\* C30: a run that has exited leaves at most one new file in the temp
\* directory, the artifact, and a run that exits with status 2 leaves none:
\* neither the placeholder files of tempnam() nor PHPUnit's JUnit log
\* outlive the run.
C30_OnlyTheArtifactIsLeft ==
  Done => /\ tmpFiles \subseteq {"artifact"}
          /\ exitStatus = 2 => tmpFiles = {}

====
